---- MODULE Spec2Model ----
(***************************************************************************)
(* Model of the perm-backend HTTP API: the route handlers of               *)
(* src/routes/users.ts, src/routes/subjects.ts, src/routes/departments.ts  *)
(* and the classes router, over a relational database.                     *)
(*                                                                         *)
(* Text is a sequence of one-character strings.  A JavaScript number is a  *)
(* record [k, v] so that NaN and Infinity are values of their own.  A      *)
(* query or path input is either Undefined or a string value.              *)
(* Rows of a table are kept in insertion order; a serial id is the row's   *)
(* position and createdAt grows with it.                                   *)
(***************************************************************************)
EXTENDS Integers, Sequences, FiniteSets, TLC

\* ------------------------------------------------------------------ bounds
MaxDepartments == 2
MaxSubjects == 2
MaxClasses == 2
MaxEnrollments == 1
MaxRows == 3

\* ------------------------------------------------------- JavaScript values
Undefined == [t |-> "undefined"]
StrVal(s) == [t |-> "string", s |-> s]
NumVal(n) == [t |-> "number", n |-> n]

Num(n) == [k |-> "num", v |-> n]
NaN == [k |-> "nan", v |-> 0]
Infinity == [k |-> "inf", v |-> 1]

IsDigit(c) == c \in {"0", "1", "2", "3", "4", "5", "6", "7", "8", "9"}

DigitVal(c) ==
    CASE c = "0" -> 0 [] c = "1" -> 1 [] c = "2" -> 2 [] c = "3" -> 3
      [] c = "4" -> 4 [] c = "5" -> 5 [] c = "6" -> 6 [] c = "7" -> 7
      [] c = "8" -> 8 [] c = "9" -> 9

RECURSIVE TrimLeft(_)
TrimLeft(s) == IF s # <<>> /\ Head(s) = " " THEN TrimLeft(Tail(s)) ELSE s

RECURSIVE TrimRight(_)
TrimRight(s) ==
    IF s # <<>> /\ s[Len(s)] = " " THEN TrimRight(SubSeq(s, 1, Len(s) - 1)) ELSE s

RECURSIVE DecimalValue(_, _)
DecimalValue(s, acc) ==
    IF s = <<>> THEN acc ELSE DecimalValue(Tail(s), 10 * acc + DigitVal(Head(s)))

\* ECMAScript StringToNumber on the decimal-integer literals, the empty or
\* blank string and "Infinity"; every other text is NaN.
StringToNumber(s) ==
    LET t == TrimRight(TrimLeft(s))
        neg == t # <<>> /\ Head(t) = "-"
        u == IF t # <<>> /\ Head(t) \in {"-", "+"} THEN Tail(t) ELSE t
    IN  IF t = <<>> THEN Num(0)
        ELSE IF u = <<"I", "n", "f", "i", "n", "i", "t", "y">> THEN Infinity
        ELSE IF u # <<>> /\ \A i \in 1..Len(u) : IsDigit(u[i])
             THEN Num(IF neg THEN 0 - DecimalValue(u, 0) ELSE DecimalValue(u, 0))
        ELSE NaN

\* Number(x) and unary +x of a query value, a path parameter or a default.
ToNumber(x) ==
    CASE x.t = "undefined" -> NaN
      [] x.t = "number" -> Num(x.n)
      [] x.t = "string" -> StringToNumber(x.s)

NumberIsFinite(n) == n.k = "num"

\* x !== "" in place of the truthiness test.
NotEmptyString(x) == ~(x.t = "string" /\ x.s = <<>>)

\* if (x): undefined and the empty string are falsy.
Truthy(x) == x.t = "string" /\ x.s # <<>>

\* `${x}` in a template literal, and a value bound as a text parameter.
TextOf(x) ==
    IF x.t = "undefined" THEN <<"u", "n", "d", "e", "f", "i", "n", "e", "d">> ELSE x.s

\* const { page = 1 } = req.query: the default replaces undefined only.
Default(x, d) == IF x.t = "undefined" THEN NumVal(d) ELSE x

\* Math.max(1, x): NaN if x is NaN.
MathMax1(n) ==
    CASE n.k = "nan" -> NaN
      [] n.k = "inf" -> n
      [] n.k = "num" -> Num(IF n.v > 1 THEN n.v ELSE 1)

\* (currentPage - 1) * limitPerPage
OffsetOf(page, limit) ==
    IF page.k = "num" /\ limit.k = "num" THEN Num((page.v - 1) * limit.v) ELSE NaN

\* Math.ceil(totalCount / limitPerPage), for totalCount >= 0.
MathCeilDiv(total, limit) ==
    CASE limit.k = "nan" -> NaN
      [] limit.k = "inf" -> Num(IF total > 0 THEN 1 ELSE 0)
      [] limit.k = "num" -> Num((total + limit.v - 1) \div limit.v)

\* ------------------------------------------------------------- SQL helpers
Lower(c) == CASE c = "A" -> "a" [] c = "B" -> "b" [] c = "C" -> "c" [] OTHER -> c

LowerStr(s) == [i \in 1..Len(s) |-> Lower(s[i])]

\* s LIKE p: % matches any run of characters, _ any one character.
RECURSIVE Like(_, _)
Like(s, p) ==
    IF p = <<>> THEN s = <<>>
    ELSE IF Head(p) = "%"
         THEN Like(s, Tail(p)) \/ (s # <<>> /\ Like(Tail(s), p))
    ELSE s # <<>> /\ (Head(p) = "_" \/ Head(p) = Head(s)) /\ Like(Tail(s), Tail(p))

\* ilike(column, `%${input}%`)
ILikeContains(col, input) == Like(LowerStr(col), <<"%">> \o LowerStr(input) \o <<"%">>)

Reverse(s) == [i \in 1..Len(s) |-> s[Len(s) + 1 - i]]

\* .limit(l).offset(o) as the query builder emits them: a LIMIT clause only
\* for a number >= 0 and an OFFSET clause only for a truthy number; NaN emits
\* neither.
LimitOffset(rows, limit, offset) ==
    LET from == IF offset.k = "num" /\ offset.v # 0 THEN offset.v ELSE 0
        rest == IF from >= Len(rows) THEN <<>> ELSE SubSeq(rows, from + 1, Len(rows))
    IN  IF limit.k = "num" /\ limit.v >= 0 /\ limit.v < Len(rest)
        THEN SubSeq(rest, 1, limit.v)
        ELSE rest

\* --------------------------------------------------------------- database
Student == <<"s", "t", "u", "d", "e", "n", "t">>
Teacher == <<"t", "e", "a", "c", "h", "e", "r">>
Admin == <<"a", "d", "m", "i", "n">>
Guest == <<"g", "u", "e", "s", "t">>

\* pgEnum("role", ["student", "teacher", "admin"])
roleEnum == {Student, Teacher, Admin}

\* The user table is filled by the authentication provider; the rows are in
\* createdAt order.
SeedUsers ==
    << [id |-> "t1", name |-> <<"A", "b">>, email |-> <<"b", "_">>, role |-> Teacher],
       [id |-> "s1", name |-> <<"b", "a">>, email |-> <<"a">>, role |-> Student],
       [id |-> "a1", name |-> <<"b">>, email |-> <<"b", "b">>, role |-> Admin] >>

UserIds == {SeedUsers[i].id : i \in 1..Len(SeedUsers)}

VARIABLES db, req, resp, posted, flight

vars == <<db, req, resp, posted, flight>>

\* .orderBy(desc(table.createdAt)): tables are kept in createdAt order.
OrderByCreatedAtDesc(rows) == Reverse(rows)

\* The row of a table with the given primary key, or the empty sequence
\* (what a left join or a lookup by id yields).
ById(rows, id) == SelectSeq(rows, LAMBDA r : r.id = id)

\* SQL NULL, and the nested object of a left join that matched nothing.
Null == [t |-> "null"]

\* A join key: <<>> for NULL, <<v>> for a value.
KeyOf(x, f) == IF x = Null THEN <<>> ELSE <<x[f]>>

\* left LEFT JOIN right ON key(left) = right[rk], the matched row nested under
\* the field as: one joined row per match, or one with Null if none matches.
RECURSIVE LeftJoin(_, _, _, _, _)
LeftJoin(left, keys, right, rk, as) ==
    IF left = <<>> THEN <<>>
    ELSE LET l == Head(left)
             k == Head(keys)
             m == IF k = <<>> THEN <<>> ELSE SelectSeq(right, LAMBDA r : r[rk] = k[1])
             joined == IF m = <<>> THEN << l @@ (as :> Null) >>
                       ELSE [i \in 1..Len(m) |-> l @@ (as :> m[i])]
         IN  joined \o LeftJoin(Tail(left), Tail(keys), right, rk, as)

RECURSIVE DistinctIds(_, _)
DistinctIds(rows, seen) ==
    IF rows = <<>> THEN <<>>
    ELSE IF Head(rows).id \in seen THEN DistinctIds(Tail(rows), seen)
    ELSE <<Head(rows).id>> \o DistinctIds(Tail(rows), seen \cup {Head(rows).id})

Without(r, f) == [g \in DOMAIN r \ {f} |-> r[g]]

\* GROUP BY id with count(nested.id) under the field cnt: one row per id, the
\* count being the number of joined rows of the group whose nested id is not NULL.
GroupByIdCount(rows, nested, cnt) ==
    LET ids == DistinctIds(rows, {})
        group(id) == SelectSeq(rows, LAMBDA r : r.id = id)
    IN  [i \in 1..Len(ids) |->
            Without(group(ids[i])[1], nested) @@
            (cnt :> Len(SelectSeq(group(ids[i]), LAMBDA r : r[nested] # Null)))]

\* ----------------------------------------------------------- list handlers
PageInputs == {Undefined, StrVal(<<"a">>), StrVal(<<"0">>), StrVal(<<"2">>)}
LimitInputs == {Undefined, StrVal(<<"a">>), StrVal(<<"-", "1">>), StrVal(<<"2">>)}
SearchInputs ==
    {Undefined, StrVal(<<>>), StrVal(<<"a">>), StrVal(<<"A">>), StrVal(<<"_">>),
     StrVal(<<"a", "%", "b">>)}
RoleInputs == {Undefined, StrVal(Teacher), StrVal(Guest)}
NameInputs == {Undefined, StrVal(<<"b">>)}

currentPage(q) == MathMax1(ToNumber(Default(q.page, 1)))
limitPerPage(q) == MathMax1(ToNumber(Default(q.limit, 10)))

Pagination(q, totalCount) ==
    [page |-> currentPage(q), limit |-> limitPerPage(q), total |-> Num(totalCount),
     totalPages |-> MathCeilDiv(totalCount, limitPerPage(q))]

ListResponse(q, totalCount, rows) ==
    [status |-> 200, body |-> [data |-> rows, pagination |-> Pagination(q, totalCount)]]

ErrorResponse(status, message) == [status |-> status, body |-> [error |-> message]]

\* users.ts: filterConditions and whereClause of GET /api/users
UsersFilterConditions(q) ==
    (IF Truthy(q.search) THEN {"search"} ELSE {}) \cup
    (IF Truthy(q.role) THEN {"role"} ELSE {})

UsersCondition(c, q, u) ==
    CASE c = "search" ->
           ILikeContains(u.name, TextOf(q.search)) \/ ILikeContains(u.email, TextOf(q.search))
      [] c = "role" -> u.role = TextOf(q.role)

\* or(...filterConditions) in place of and(...filterConditions)
UsersWhereAny(q, u) ==
    UsersFilterConditions(q) = {} \/ \E c \in UsersFilterConditions(q) : UsersCondition(c, q, u)

UsersWhere(q, u) == \A c \in UsersFilterConditions(q) : UsersCondition(c, q, u)

\* eq(user.role, role) with a text that is no label of the enum: the database
\* rejects the statement.
UsersQueryRejected(q) == "role" \in UsersFilterConditions(q) /\ TextOf(q.role) \notin roleEnum

UsersCount(d, q) == Len(SelectSeq(d.user, LAMBDA u : UsersWhere(q, u)))

\* from user where ... order by createdAt desc
UsersRelation(d, q) == OrderByCreatedAtDesc(SelectSeq(d.user, LAMBDA u : UsersWhere(q, u)))

UsersData(d, q) ==
    LimitOffset(UsersRelation(d, q), limitPerPage(q), OffsetOf(currentPage(q), limitPerPage(q)))

\* fail is the number of the awaited database call that rejects (0: none).
UsersListThrows(q, fail) == fail \in {1, 2} \/ UsersQueryRejected(q)

UsersListResponse(d, q, fail) ==
    IF UsersListThrows(q, fail)
    THEN ErrorResponse(500, "Failed to fetch users")
    ELSE ListResponse(q, UsersCount(d, q), UsersData(d, q))

\* departments.ts: GET /api/departments
DepartmentsFilterConditions(q) == IF Truthy(q.search) THEN {"search"} ELSE {}

DepartmentsCondition(c, q, r) ==
    ILikeContains(r.name, TextOf(q.search)) \/ ILikeContains(r.code, TextOf(q.search))

DepartmentsWhere(q, r) ==
    \A c \in DepartmentsFilterConditions(q) : DepartmentsCondition(c, q, r)

\* select count(*) from departments where ...
DepartmentsCount(d, q) == Len(SelectSeq(d.departments, LAMBDA r : DepartmentsWhere(q, r)))

\* from departments left join subjects ... where ... group by departments.id
DepartmentsRelation(d, q) ==
    LET joined == LeftJoin(d.departments,
                           [i \in 1..Len(d.departments) |-> <<d.departments[i].id>>],
                           d.subjects, "departmentId", "subject")
    IN  OrderByCreatedAtDesc(
            GroupByIdCount(SelectSeq(joined, LAMBDA r : DepartmentsWhere(q, r)),
                           "subject", "totalSubjects"))

DepartmentsData(d, q) ==
    LimitOffset(DepartmentsRelation(d, q), limitPerPage(q),
                OffsetOf(currentPage(q), limitPerPage(q)))

DepartmentsListThrows(q, fail) == fail \in {1, 2}

DepartmentsListResponse(d, q, fail) ==
    IF DepartmentsListThrows(q, fail)
    THEN ErrorResponse(500, "Failed to fetch departments")
    ELSE ListResponse(q, DepartmentsCount(d, q), DepartmentsData(d, q))

\* subjects.ts: GET /api/subjects
SubjectsFilterConditions(q) ==
    (IF Truthy(q.search) THEN {"search"} ELSE {}) \cup
    (IF Truthy(q.department) THEN {"department"} ELSE {})

SubjectsCondition(c, q, r) ==
    CASE c = "search" ->
           ILikeContains(r.name, TextOf(q.search)) \/ ILikeContains(r.code, TextOf(q.search))
      [] c = "department" ->
           r.department # Null /\ ILikeContains(r.department.name, TextOf(q.department))

SubjectsWhere(q, r) == \A c \in SubjectsFilterConditions(q) : SubjectsCondition(c, q, r)

\* from subjects left join departments on subjects.departmentId = departments.id
SubjectsJoin(d) ==
    LeftJoin(d.subjects, [i \in 1..Len(d.subjects) |-> <<d.subjects[i].departmentId>>],
             d.departments, "id", "department")

SubjectsCount(d, q) == Len(SelectSeq(SubjectsJoin(d), LAMBDA r : SubjectsWhere(q, r)))

SubjectsRelation(d, q) ==
    OrderByCreatedAtDesc(SelectSeq(SubjectsJoin(d), LAMBDA r : SubjectsWhere(q, r)))

SubjectsData(d, q) ==
    LimitOffset(SubjectsRelation(d, q), limitPerPage(q),
                OffsetOf(currentPage(q), limitPerPage(q)))

SubjectsListThrows(q, fail) == fail \in {1, 2}

SubjectsListResponse(d, q, fail) ==
    IF SubjectsListThrows(q, fail)
    THEN ErrorResponse(500, "Failed to fetch subjects")
    ELSE ListResponse(q, SubjectsCount(d, q), SubjectsData(d, q))

\* classes router: GET /api/classes
ClassesFilterConditions(q) ==
    (IF Truthy(q.search) THEN {"search"} ELSE {}) \cup
    (IF Truthy(q.subject) THEN {"subject"} ELSE {}) \cup
    (IF Truthy(q.teacher) THEN {"teacher"} ELSE {})

ClassesCondition(c, q, r) ==
    CASE c = "search" ->
           ILikeContains(r.name, TextOf(q.search)) \/ ILikeContains(r.inviteCode, TextOf(q.search))
      [] c = "subject" -> r.subject # Null /\ ILikeContains(r.subject.name, TextOf(q.subject))
      [] c = "teacher" -> r.teacher # Null /\ ILikeContains(r.teacher.name, TextOf(q.teacher))

ClassesWhere(q, r) == \A c \in ClassesFilterConditions(q) : ClassesCondition(c, q, r)

\* from classes left join subjects on classes.subjectId = subjects.id
\*              left join user on classes.teacherId = user.id
ClassesJoin(d) ==
    LET withSubject ==
            LeftJoin(d.classes, [i \in 1..Len(d.classes) |-> <<d.classes[i].subjectId>>],
                     d.subjects, "id", "subject")
    IN  LeftJoin(withSubject, [i \in 1..Len(withSubject) |-> <<withSubject[i].teacherId>>],
                 d.user, "id", "teacher")

ClassesCount(d, q) == Len(SelectSeq(ClassesJoin(d), LAMBDA r : ClassesWhere(q, r)))

ClassesRelation(d, q) ==
    OrderByCreatedAtDesc(SelectSeq(ClassesJoin(d), LAMBDA r : ClassesWhere(q, r)))

ClassesData(d, q) ==
    LimitOffset(ClassesRelation(d, q), limitPerPage(q),
                OffsetOf(currentPage(q), limitPerPage(q)))

ClassesListThrows(q, fail) == fail \in {1, 2}

ClassesListResponse(d, q, fail) ==
    IF ClassesListThrows(q, fail)
    THEN ErrorResponse(500, "Failed to fetch classes")
    ELSE ListResponse(q, ClassesCount(d, q), ClassesData(d, q))

\* ---------------------------------------------------------- create handlers
\* What an insert ... returning does: "ok" returns the new row's id, "throws"
\* rejects, "norow" resolves to an empty result.
InsertOutcomes == {"ok", "throws", "norow"}

\* Foreign keys of the application schema: a subject's department, a class's
\* subject and teacher, an enrollment's student and class must exist.
ReferencesExist(d, table, row) ==
    CASE table = "subjects" -> ById(d.departments, row.departmentId) # <<>>
      [] table = "classes" ->
           ById(d.subjects, row.subjectId) # <<>> /\ ById(d.user, row.teacherId) # <<>>
      [] table = "enrollments" ->
           ById(d.classes, row.classId) # <<>> /\ ById(d.user, row.studentId) # <<>>
      [] OTHER -> TRUE

\* db.insert(table).values(row): the row gets the next serial id.
InsertRow(d, table, row) == [d EXCEPT ![table] = Append(@, row @@ ("id" :> Len(@) + 1))]

\* The handler without `if (!created) throw Error`.
CreateThrowsOnRejectOnly(d, table, row, outcome) ==
    outcome = "throws" \/ ~ReferencesExist(d, table, row)

\* insert(...).returning({ id }), then `if (!created) throw Error`
CreateThrows(d, table, row, outcome) ==
    outcome # "ok" \/ ~ReferencesExist(d, table, row)

\* returning yields exactly the inserted rows: no row back, no row inserted.
CreateEffect(d, table, row, outcome) ==
    IF outcome = "ok" /\ ReferencesExist(d, table, row) THEN InsertRow(d, table, row)
    ELSE d

CreateResponse(d, table, row, outcome, message) ==
    IF CreateThrows(d, table, row, outcome)
    THEN ErrorResponse(500, message)
    ELSE [status |-> 201, body |-> [data |-> [id |-> Len(d[table]) + 1]]]

\* values({ code: name, name: code })
DepartmentValuesSwapped(body) == [code |-> body.name, name |-> body.code]

\* const { code, name, description } = req.body; values({ code, name, description })
DepartmentValues(body) == [code |-> body.code, name |-> body.name]

\* values({ departmentId, name, code, description })
SubjectValues(body) ==
    [departmentId |-> body.departmentId, name |-> body.name, code |-> body.code]

\* values({ subjectId, inviteCode: Math.random()..., name, teacherId, ... })
ClassValues(body, inviteCode) ==
    [subjectId |-> body.subjectId, inviteCode |-> inviteCode, name |-> body.name,
     teacherId |-> body.teacherId]

\* ---------------------------------------------------------- detail handlers
\* subjects.ts: GET /api/subjects/:id
SubjectLookup(d, subjectId) ==
    SelectSeq(SubjectsJoin(d), LAMBDA r : r.id = subjectId.v)

\* from classes left join user on classes.teacherId = user.id
\* where classes.subjectId = :id order by classes.createdAt desc
SubjectClasses(d, subjectId) ==
    OrderByCreatedAtDesc(
        SelectSeq(LeftJoin(d.classes, [i \in 1..Len(d.classes) |-> <<d.classes[i].teacherId>>],
                           d.user, "id", "teacher"),
                  LAMBDA r : r.subjectId = subjectId.v))

SubjectDetailThrows(d, id, fail) ==
    /\ NumberIsFinite(ToNumber(id))
    /\ \/ fail = 1
       \/ fail = 2 /\ SubjectLookup(d, ToNumber(id)) # <<>>

\* TRUE iff the handler issues at least one database statement.
SubjectDetailQueries(id) == NumberIsFinite(ToNumber(id))

SubjectDetailResponse(d, id, fail) ==
    LET subjectId == ToNumber(id)
    IN  IF ~NumberIsFinite(subjectId) THEN ErrorResponse(400, "Invalid subject id")
        ELSE IF SubjectDetailThrows(d, id, fail)
             THEN ErrorResponse(500, "Failed to fetch subject details")
        ELSE IF SubjectLookup(d, subjectId) = <<>>
             THEN ErrorResponse(404, "Subject not found")
        ELSE LET classesList == SubjectClasses(d, subjectId)
             IN  [status |-> 200,
                  body |-> [data |-> [subject |-> SubjectLookup(d, subjectId)[1],
                                      classes |-> classesList,
                                      totals |-> [classes |-> Len(classesList)]]]]

\* users.ts: GET /api/users/:id
UserLookup(d, userId) == ById(d.user, userId)

\* A map whose set() leaves the value of a present key alone.
MapSetIfAbsent(m, k, v) ==
    IF \E i \in 1..Len(m) : m[i][1] = k THEN m ELSE Append(m, <<k, v>>)

\* A JavaScript Map as a sequence of <<key, value>> in insertion order:
\* set() of a present key replaces the value in place, of a new key appends.
MapSet(m, k, v) ==
    IF \E i \in 1..Len(m) : m[i][1] = k
    THEN [i \in 1..Len(m) |-> IF m[i][1] = k THEN <<k, v>> ELSE m[i]]
    ELSE Append(m, <<k, v>>)

MapValues(m) == [i \in 1..Len(m) |-> m[i][2]]

\* if (item.nested?.id): the nested object is not null and its id is truthy.
HasTruthyId(x) == x # Null /\ x.id # 0

\* for (const item of rows) { if (item[nested]?.id) map.set(item[nested].id, item[nested]) }
RECURSIVE Flatten(_, _, _)
Flatten(rows, nested, m) ==
    IF rows = <<>> THEN m
    ELSE Flatten(Tail(rows), nested,
                 IF HasTruthyId(Head(rows)[nested])
                 THEN MapSet(m, Head(rows)[nested].id, Head(rows)[nested])
                 ELSE m)

\* from classes left join subjects left join departments
\* where classes.teacherId = :id order by classes.createdAt desc
TeacherClasses(d, userId) ==
    LET withSubject ==
            LeftJoin(d.classes, [i \in 1..Len(d.classes) |-> <<d.classes[i].subjectId>>],
                     d.subjects, "id", "subject")
        withDepartment ==
            LeftJoin(withSubject,
                     [i \in 1..Len(withSubject) |-> KeyOf(withSubject[i].subject, "departmentId")],
                     d.departments, "id", "department")
    IN  OrderByCreatedAtDesc(SelectSeq(withDepartment, LAMBDA r : r.teacherId = userId))

\* from enrollments left join classes left join subjects left join departments
\* left join user on classes.teacherId = user.id
\* where enrollments.studentId = :id order by enrollments.createdAt desc
StudentEnrollments(d, userId) ==
    LET e == d.enrollments
        withClass == LeftJoin(e, [i \in 1..Len(e) |-> <<e[i].classId>>], d.classes, "id", "class")
        withSubject ==
            LeftJoin(withClass,
                     [i \in 1..Len(withClass) |-> KeyOf(withClass[i].class, "subjectId")],
                     d.subjects, "id", "subject")
        withDepartment ==
            LeftJoin(withSubject,
                     [i \in 1..Len(withSubject) |-> KeyOf(withSubject[i].subject, "departmentId")],
                     d.departments, "id", "department")
        withTeacher ==
            LeftJoin(withDepartment,
                     [i \in 1..Len(withDepartment) |-> KeyOf(withDepartment[i].class, "teacherId")],
                     d.user, "id", "teacher")
    IN  OrderByCreatedAtDesc(SelectSeq(withTeacher, LAMBDA r : r.studentId = userId))

\* The student branch answering without the enrollments themselves.
StudentDetailWithoutEnrollments(d, userDetails) ==
    LET enrollmentsList == StudentEnrollments(d, userDetails.id)
        classMap == Flatten(enrollmentsList, "class", <<>>)
        subjectMap == Flatten(enrollmentsList, "subject", <<>>)
    IN  [user |-> userDetails,
         classes |-> MapValues(classMap),
         subjects |-> MapValues(subjectMap),
         totals |-> [classes |-> Len(classMap), subjects |-> Len(subjectMap)]]

TeacherDetail(d, userDetails) ==
    LET classesList == TeacherClasses(d, userDetails.id)
        subjectMap == Flatten(classesList, "subject", <<>>)
        departmentMap == Flatten(classesList, "department", <<>>)
    IN  [user |-> userDetails,
         classes |-> classesList,
         subjects |-> MapValues(subjectMap),
         departments |-> MapValues(departmentMap),
         totals |-> [classes |-> Len(classesList), subjects |-> Len(subjectMap),
                     departments |-> Len(departmentMap)]]

StudentDetail(d, userDetails) ==
    LET enrollmentsList == StudentEnrollments(d, userDetails.id)
        classMap == Flatten(enrollmentsList, "class", <<>>)
        subjectMap == Flatten(enrollmentsList, "subject", <<>>)
    IN  [user |-> userDetails,
         enrollments |-> enrollmentsList,
         classes |-> MapValues(classMap),
         subjects |-> MapValues(subjectMap),
         totals |-> [enrollments |-> Len(enrollmentsList), classes |-> Len(classMap),
                     subjects |-> Len(subjectMap)]]

\* The role-specific query is the handler's second database call.
UserDetailThrows(d, userId, fail) ==
    \/ fail = 1
    \/ /\ fail = 2
       /\ UserLookup(d, userId) # <<>>
       /\ UserLookup(d, userId)[1].role \in {Teacher, Student}

\* All three queries issued up front, whatever the lookup returns.
UserDetailQueriesEager(d, userId, fail) == <<"user", "classes", "enrollments">>

\* The queries the handler issues, in order: the lookup, and the query of the
\* role branch once the lookup has returned a teacher or a student.
UserDetailQueries(d, userId, fail) ==
    IF fail = 1 \/ UserLookup(d, userId) = <<>> THEN <<"user">>
    ELSE CASE UserLookup(d, userId)[1].role = Teacher -> <<"user", "classes">>
           [] UserLookup(d, userId)[1].role = Student -> <<"user", "enrollments">>
           [] OTHER -> <<"user">>

UserDetailResponse(d, userId, fail) ==
    IF UserDetailThrows(d, userId, fail)
    THEN ErrorResponse(500, "Failed to fetch user details")
    ELSE IF UserLookup(d, userId) = <<>> THEN ErrorResponse(404, "User not found")
    ELSE LET userDetails == UserLookup(d, userId)[1]
         IN  [status |-> 200,
              body |-> [data |->
                  CASE userDetails.role = Teacher -> TeacherDetail(d, userDetails)
                    [] userDetails.role = Student -> StudentDetail(d, userDetails)
                    [] OTHER -> [user |-> userDetails]]]

\* departments.ts: GET /api/departments/:id
DepartmentLookup(d, departmentId) == ById(d.departments, departmentId.v)

\* The subjects query without its GROUP BY: one row per joined class.
DepartmentSubjectsUngrouped(d, departmentId) ==
    LET joined == LeftJoin(d.subjects, [i \in 1..Len(d.subjects) |-> <<d.subjects[i].id>>],
                           d.classes, "subjectId", "class")
    IN  OrderByCreatedAtDesc(SelectSeq(joined, LAMBDA r : r.departmentId = departmentId.v))

\* from subjects left join classes on subjects.id = classes.subjectId
\* where subjects.departmentId = :id group by subjects.id
DepartmentSubjects(d, departmentId) ==
    LET joined == LeftJoin(d.subjects, [i \in 1..Len(d.subjects) |-> <<d.subjects[i].id>>],
                           d.classes, "subjectId", "class")
    IN  OrderByCreatedAtDesc(
            GroupByIdCount(SelectSeq(joined, LAMBDA r : r.departmentId = departmentId.v),
                           "class", "totalClasses"))

\* from classes left join subjects left join user where subjects.departmentId = :id
DepartmentClasses(d, departmentId) ==
    OrderByCreatedAtDesc(
        SelectSeq(ClassesJoin(d),
                  LAMBDA r : r.subject # Null /\ r.subject.departmentId = departmentId.v))

\* from user left join enrollments left join classes left join subjects
\* where user.role = 'student' and subjects.departmentId = :id
\* group by user.id, user.name, user.email, user.image, user.role
DepartmentStudents(d, departmentId) ==
    LET u == d.user
        withEnrollment ==
            LeftJoin(u, [i \in 1..Len(u) |-> <<u[i].id>>], d.enrollments, "studentId", "enrollment")
        withClass ==
            LeftJoin(withEnrollment,
                     [i \in 1..Len(withEnrollment) |-> KeyOf(withEnrollment[i].enrollment, "classId")],
                     d.classes, "id", "class")
        withSubject ==
            LeftJoin(withClass,
                     [i \in 1..Len(withClass) |-> KeyOf(withClass[i].class, "subjectId")],
                     d.subjects, "id", "subject")
        kept == SelectSeq(withSubject,
                          LAMBDA r : /\ r.role = Student
                                     /\ r.subject # Null
                                     /\ r.subject.departmentId = departmentId.v)
        ids == DistinctIds(kept, {})
        first(id) == SelectSeq(kept, LAMBDA r : r.id = id)[1]
    IN  OrderByCreatedAtDesc(
            [i \in 1..Len(ids) |->
                [id |-> first(ids[i]).id, name |-> first(ids[i]).name,
                 email |-> first(ids[i]).email, role |-> first(ids[i]).role]])

SubQueries == {"subjects", "classes", "enrolledStudents"}

SubQueryRows(d, k, departmentId) ==
    CASE k = "subjects" -> DepartmentSubjects(d, departmentId)
      [] k = "classes" -> DepartmentClasses(d, departmentId)
      [] k = "enrolledStudents" -> DepartmentStudents(d, departmentId)

Pending == [state |-> "pending"]
Rejected == [state |-> "rejected"]
Fulfilled(rows) == [state |-> "fulfilled", rows |-> rows]

Idle == [pc |-> "idle"]
NoResponse == [status |-> 0, body |-> Null]

\* Promise.all: rejected as soon as one member is, fulfilled when all are.
PromiseAllRejected(results) == \E k \in SubQueries : results[k] = Rejected
PromiseAllFulfilled(results) == \A k \in SubQueries : results[k].state = "fulfilled"

DepartmentDetailBody(department, results) ==
    [data |-> [department |-> department,
               subjects |-> results["subjects"].rows,
               classes |-> results["classes"].rows,
               enrolledStudents |-> results["enrolledStudents"].rows,
               totals |-> [subjects |-> Len(results["subjects"].rows),
                           classes |-> Len(results["classes"].rows),
                           enrolledStudents |-> Len(results["enrolledStudents"].rows)]]]

\* ------------------------------------------------------------------ inputs
DepartmentBodies ==
    { [code |-> <<"a">>, name |-> <<"A", "b">>], [code |-> <<"b">>, name |-> <<"b", "_">>] }

SubjectBodies ==
    { [departmentId |-> i, name |-> <<"a">>, code |-> <<"b", "_">>] : i \in 1..MaxDepartments }

ClassBodies ==
    { [subjectId |-> i, teacherId |-> "t1", name |-> <<"a">>] : i \in 1..MaxSubjects }

\* Math.random().toString(36).substring(2, 9)
InviteCodes == { <<"b">> }

EnrollmentBodies == { [studentId |-> "s1", classId |-> i] : i \in 1..MaxClasses }

IdInputs ==
    { StrVal(<<"a">>), StrVal(<<" ">>), StrVal(<<"1">>), StrVal(<<"2">>), StrVal(<<"3">>),
      StrVal(<<"I", "n", "f", "i", "n", "i", "t", "y">>) }

UserIdInputs == UserIds \cup {"zz"}

UsersQueries == [search : SearchInputs, role : RoleInputs, page : PageInputs, limit : LimitInputs]
DepartmentsQueries == [search : SearchInputs, page : PageInputs, limit : LimitInputs]
SubjectsQueries ==
    [search : SearchInputs, department : NameInputs, page : PageInputs, limit : LimitInputs]
ClassesQueries ==
    [search : {Undefined, StrVal(<<>>), StrVal(<<"_">>)}, subject : NameInputs, teacher : NameInputs,
     page : PageInputs, limit : LimitInputs]

\* ------------------------------------------------------------------ actions
\* fault is the injected database fault (the rejecting call, or the insert's
\* outcome); queried tells whether the handler reached the database.  The
\* department detail request also carries settled, the order in which its
\* sub-queries have settled so far, and the user detail request issued, the
\* queries the handler has issued.
Request(route, input, fault, queried) ==
    [route |-> route, input |-> input, fault |-> fault, queried |-> queried]

\* The ids handed out by 201 responses, with the body that was posted, per
\* resource.
Posted(log, table, body, response) ==
    IF response.status = 201
    THEN [log EXCEPT ![table] = Append(@, [body |-> body, id |-> response.body.data.id])]
    ELSE log

\* Requests are taken one at a time: the next one is dispatched once the
\* response of the last has been sent.
NoRequest == Request("none", Null, 0, FALSE)

Ready == req.route = "none" /\ flight = Idle

Init ==
    /\ db = [user |-> SeedUsers, departments |-> <<>>, subjects |-> <<>>,
             classes |-> <<>>, enrollments |-> <<>>]
    /\ req = NoRequest
    /\ resp = NoResponse
    /\ posted = [departments |-> <<>>, subjects |-> <<>>, classes |-> <<>>,
                 enrollments |-> <<>>]
    /\ Ready

GetUsers(q, fail) ==
    /\ Ready
    /\ req' = Request("GET /users", q, fail, TRUE)
    /\ resp' = UsersListResponse(db, q, fail)
    /\ UNCHANGED <<db, posted, flight>>

GetDepartments(q, fail) ==
    /\ Ready
    /\ req' = Request("GET /departments", q, fail, TRUE)
    /\ resp' = DepartmentsListResponse(db, q, fail)
    /\ UNCHANGED <<db, posted, flight>>

GetSubjects(q, fail) ==
    /\ Ready
    /\ req' = Request("GET /subjects", q, fail, TRUE)
    /\ resp' = SubjectsListResponse(db, q, fail)
    /\ UNCHANGED <<db, posted, flight>>

GetClasses(q, fail) ==
    /\ Ready
    /\ req' = Request("GET /classes", q, fail, TRUE)
    /\ resp' = ClassesListResponse(db, q, fail)
    /\ UNCHANGED <<db, posted, flight>>

PostDepartment(body, outcome) ==
    LET row == DepartmentValues(body)
        response == CreateResponse(db, "departments", row, outcome, "Failed to create department")
    IN  /\ Ready
        /\ Len(db.departments) < MaxDepartments
        /\ req' = Request("POST /departments", body, outcome, TRUE)
        /\ resp' = response
        /\ db' = CreateEffect(db, "departments", row, outcome)
        /\ posted' = Posted(posted, "departments", body, response)
        /\ UNCHANGED flight

PostSubject(body, outcome) ==
    LET row == SubjectValues(body)
        response == CreateResponse(db, "subjects", row, outcome, "Failed to create subject")
    IN  /\ Ready
        /\ Len(db.subjects) < MaxSubjects
        /\ req' = Request("POST /subjects", body, outcome, TRUE)
        /\ resp' = response
        /\ db' = CreateEffect(db, "subjects", row, outcome)
        /\ posted' = Posted(posted, "subjects", body, response)
        /\ UNCHANGED flight

PostClass(body, inviteCode, outcome) ==
    LET row == ClassValues(body, inviteCode)
        response == CreateResponse(db, "classes", row, outcome, "Failed to create class")
    IN  /\ Ready
        /\ Len(db.classes) < MaxClasses
        /\ req' = Request("POST /classes", body, outcome, TRUE)
        /\ resp' = response
        /\ db' = CreateEffect(db, "classes", row, outcome)
        /\ posted' = Posted(posted, "classes", body, response)
        /\ UNCHANGED flight

\* The enrollments router: inserts (studentId, classId) and returns the id.
PostEnrollment(body, outcome) ==
    LET response == CreateResponse(db, "enrollments", body, outcome, "Failed to create enrollment")
    IN  /\ Ready
        /\ Len(db.enrollments) < MaxEnrollments
        /\ req' = Request("POST /enrollments", body, outcome, TRUE)
        /\ resp' = response
        /\ db' = CreateEffect(db, "enrollments", body, outcome)
        /\ posted' = Posted(posted, "enrollments", body, response)
        /\ UNCHANGED flight

GetSubjectDetail(id, fail) ==
    /\ Ready
    /\ req' = Request("GET /subjects/:id", id, fail, SubjectDetailQueries(id))
    /\ resp' = SubjectDetailResponse(db, id, fail)
    /\ UNCHANGED <<db, posted, flight>>

GetUserDetail(userId, fail) ==
    /\ Ready
    /\ req' = [route |-> "GET /users/:id", input |-> userId, fault |-> fail,
                queried |-> TRUE, issued |-> UserDetailQueries(db, userId, fail)]
    /\ resp' = UserDetailResponse(db, userId, fail)
    /\ UNCHANGED <<db, posted, flight>>

\* GET /api/departments/:id up to Promise.all: the id check and the lookup.
\* The three sub-queries are then in flight and settle in any order.
GetDepartmentDetail(id, fail) ==
    LET departmentId == ToNumber(id)
        found == DepartmentLookup(db, departmentId)
    IN  /\ Ready
        /\ req' = [route |-> "GET /departments/:id", input |-> id, fault |-> fail,
                    queried |-> NumberIsFinite(departmentId), settled |-> <<>>]
        /\ IF ~NumberIsFinite(departmentId)
           THEN resp' = ErrorResponse(400, "Invalid department id") /\ flight' = Idle
           ELSE IF fail = 1
           THEN resp' = ErrorResponse(500, "Failed to fetch department details")
                /\ flight' = Idle
           ELSE IF found = <<>>
           THEN resp' = ErrorResponse(404, "Department not found") /\ flight' = Idle
           ELSE /\ resp' = NoResponse
                /\ flight' = [pc |-> "fanout", departmentId |-> departmentId,
                              department |-> found[1],
                              results |-> [k \in SubQueries |-> Pending]]
        /\ UNCHANGED <<db, posted>>

\* A sub-query whose rejection is caught on its own and read as no rows.
SubQuerySettlesSwallowed(k, ok) ==
    /\ flight.pc = "fanout"
    /\ flight.results[k] = Pending
    /\ flight' = [flight EXCEPT !.results[k] =
                     Fulfilled(IF ok THEN SubQueryRows(db, k, flight.departmentId) ELSE <<>>)]
    /\ req' = [req EXCEPT !.fault = IF ok THEN @ ELSE 2, !.settled = Append(@, k)]
    /\ UNCHANGED <<db, resp, posted>>

\* One sub-query of Promise.all settles.
SubQuerySettles(k, ok) ==
    /\ flight.pc = "fanout"
    /\ flight.results[k] = Pending
    /\ flight' = [flight EXCEPT !.results[k] =
                     IF ok THEN Fulfilled(SubQueryRows(db, k, flight.departmentId))
                     ELSE Rejected]
    /\ req' = [req EXCEPT !.fault = IF ok THEN @ ELSE 2, !.settled = Append(@, k)]
    /\ UNCHANGED <<db, resp, posted>>

\* The await of Promise.all resumes: the 200 body, or the catch block.
DepartmentDetailResponds ==
    /\ flight.pc = "fanout"
    /\ \/ /\ PromiseAllRejected(flight.results)
          /\ resp' = ErrorResponse(500, "Failed to fetch department details")
       \/ /\ ~PromiseAllRejected(flight.results)
          /\ PromiseAllFulfilled(flight.results)
          /\ resp' = [status |-> 200,
                      body |-> DepartmentDetailBody(flight.department, flight.results)]
    /\ flight' = Idle
    /\ UNCHANGED <<db, req, posted>>

\* res.json() has sent the response; the request is over.
RequestEnds ==
    /\ req.route # "none"
    /\ resp # NoResponse
    /\ flight = Idle
    /\ req' = NoRequest
    /\ resp' = NoResponse
    /\ UNCHANGED <<db, posted, flight>>

\* The database answers every statement.
Next ==
    \/ Ready /\ \E q \in UsersQueries : GetUsers(q, 0)
    \/ Ready /\ \E q \in DepartmentsQueries : GetDepartments(q, 0)
    \/ Ready /\ \E q \in SubjectsQueries : GetSubjects(q, 0)
    \/ Ready /\ \E q \in ClassesQueries : GetClasses(q, 0)
    \/ Ready /\ \E b \in DepartmentBodies : PostDepartment(b, "ok")
    \/ Ready /\ \E b \in SubjectBodies : PostSubject(b, "ok")
    \/ Ready /\ \E b \in ClassBodies, c \in InviteCodes : PostClass(b, c, "ok")
    \/ Ready /\ \E b \in EnrollmentBodies : PostEnrollment(b, "ok")
    \/ Ready /\ \E id \in IdInputs : GetSubjectDetail(id, 0)
    \/ Ready /\ \E id \in UserIdInputs : GetUserDetail(id, 0)
    \/ Ready /\ \E id \in IdInputs : GetDepartmentDetail(id, 0)
    \/ \E k \in SubQueries : SubQuerySettles(k, TRUE)
    \/ DepartmentDetailResponds
    \/ RequestEnds

Spec == Init /\ [][Next]_vars

\* Any awaited database call may reject, and an insert may return no row.
\* A list request that meets a rejection is one with the default paging.
FailPoints == 0..2

Faulted(q, f) == f = 0 \/ (q.page = Undefined /\ q.limit = Undefined)

NextFaulty ==
    \/ Ready /\ \E q \in UsersQueries, f \in FailPoints : Faulted(q, f) /\ GetUsers(q, f)
    \/ Ready /\ \E q \in DepartmentsQueries, f \in FailPoints : Faulted(q, f) /\ GetDepartments(q, f)
    \/ Ready /\ \E q \in SubjectsQueries, f \in FailPoints : Faulted(q, f) /\ GetSubjects(q, f)
    \/ Ready /\ \E q \in ClassesQueries, f \in FailPoints : Faulted(q, f) /\ GetClasses(q, f)
    \/ Ready /\ \E b \in DepartmentBodies, o \in InsertOutcomes : PostDepartment(b, o)
    \/ Ready /\ \E b \in SubjectBodies, o \in InsertOutcomes : PostSubject(b, o)
    \/ Ready /\ \E b \in ClassBodies, c \in InviteCodes, o \in InsertOutcomes : PostClass(b, c, o)
    \/ Ready /\ \E b \in EnrollmentBodies, o \in InsertOutcomes : PostEnrollment(b, o)
    \/ Ready /\ \E id \in IdInputs, f \in FailPoints : GetSubjectDetail(id, f)
    \/ Ready /\ \E id \in UserIdInputs, f \in FailPoints : GetUserDetail(id, f)
    \/ Ready /\ \E id \in IdInputs, f \in 0..1 : GetDepartmentDetail(id, f)
    \/ \E k \in SubQueries, ok \in BOOLEAN : SubQuerySettles(k, ok)
    \/ DepartmentDetailResponds
    \/ RequestEnds

SpecFaulty == Init /\ [][NextFaulty]_vars

\* The two key-maps of a user detail branch on their own, applied to a list of
\* joined rows: the nested objects are null (the left join matched nothing) or
\* records with an id, and the same id may come with different records.
NestedSubjects ==
    { Null, [id |-> 0, name |-> <<"a">>], [id |-> 1, name |-> <<"a">>],
      [id |-> 1, name |-> <<"b">>], [id |-> 2, name |-> <<"a">>] }

NestedDepartments ==
    { Null, [id |-> 1, name |-> <<"a">>], [id |-> 1, name |-> <<"b">>] }

JoinedRows == [subject : NestedSubjects, department : NestedDepartments]

RowLists == UNION { [1..n -> JoinedRows] : n \in 0..MaxRows }

\* users.ts: the loop over classesList and the aggregate built from its maps.
Aggregate(classesList) ==
    LET subjectMap == Flatten(classesList, "subject", <<>>)
        departmentMap == Flatten(classesList, "department", <<>>)
    IN  [classes |-> classesList,
         subjects |-> MapValues(subjectMap),
         departments |-> MapValues(departmentMap),
         totals |-> [classes |-> Len(classesList), subjects |-> Len(subjectMap),
                     departments |-> Len(departmentMap)]]

InitFlatten ==
    /\ db = [user |-> SeedUsers, departments |-> <<>>, subjects |-> <<>>,
             classes |-> <<>>, enrollments |-> <<>>]
    /\ posted = [departments |-> <<>>, subjects |-> <<>>, classes |-> <<>>,
                 enrollments |-> <<>>]
    /\ flight = Idle
    /\ \E rows \in RowLists : req = Request("flatten", rows, 0, FALSE)
    /\ resp = NoResponse

ApplyFlatten ==
    /\ req.route = "flatten"
    /\ resp = NoResponse
    /\ resp' = [status |-> 200, body |-> [data |-> Aggregate(req.input)]]
    /\ UNCHANGED <<db, req, posted, flight>>

SpecFlatten == InitFlatten /\ [][ApplyFlatten]_vars

\* ------------------------------------------------------------------ claims
ListRoutes == {"GET /users", "GET /departments", "GET /subjects", "GET /classes"}

ListAnswered == req.route \in ListRoutes /\ resp.status = 200

\* The data query of a list endpoint with .limit() and .offset() removed.
Relation(route, d, q) ==
    CASE route = "GET /users" -> UsersRelation(d, q)
      [] route = "GET /departments" -> DepartmentsRelation(d, q)
      [] route = "GET /subjects" -> SubjectsRelation(d, q)
      [] route = "GET /classes" -> ClassesRelation(d, q)

CountOf(route, d, q) ==
    CASE route = "GET /users" -> UsersCount(d, q)
      [] route = "GET /departments" -> DepartmentsCount(d, q)
      [] route = "GET /subjects" -> SubjectsCount(d, q)
      [] route = "GET /classes" -> ClassesCount(d, q)

\* The page or limit a request asks for: the default if absent, the number if
\* it is one and at least 1, else 1.
Clamped(x, default) ==
    IF x = Undefined THEN default
    ELSE IF ToNumber(x).k = "num" /\ ToNumber(x).v >= 1 THEN ToNumber(x).v
    ELSE 1

IsNumeric(x) == x = Undefined \/ ToNumber(x).k = "num"

\* ceil(total / limit) for total >= 0 and limit >= 1
CeilOf(total, limit) ==
    CHOOSE n \in 0..total : n * limit >= total /\ (n = 0 \/ (n - 1) * limit < total)

\* The rows of a relation from an offset on, at most limit of them.
Window(rel, offset, limit) ==
    LET n == IF Len(rel) - offset < 0 THEN 0
             ELSE IF Len(rel) - offset < limit THEN Len(rel) - offset ELSE limit
    IN  [i \in 1..n |-> rel[offset + i]]

\* C1: in every list response pagination.total is the number of rows of the
\* data query without limit and offset, whatever page and limit are asked
\* for, and pagination.totalPages is ceil(total / limit).
C1_TotalAndTotalPages ==
    ListAnswered =>
        LET q == req.input
            total == Len(Relation(req.route, db, q))
        IN  /\ resp.body.pagination.total = Num(total)
            /\ \A pg \in PageInputs, lm \in LimitInputs :
                   CountOf(req.route, db, [q EXCEPT !.page = pg, !.limit = lm]) = total
            /\ resp.body.pagination.totalPages = Num(CeilOf(total, Clamped(q.limit, 10)))

\* C1, for the requests whose limit is absent or a number.
C1_NumericLimit ==
    ListAnswered /\ IsNumeric(req.input.limit) => C1_TotalAndTotalPages

\* C2: the data of a list response has at most limit rows, exactly limit rows
\* on every page before the last, and is the rows of the filtered relation
\* from offset (page - 1) * limit on.
C2_PageWindow ==
    ListAnswered =>
        LET q == req.input
            rel == Relation(req.route, db, q)
            page == Clamped(q.page, 1)
            limit == Clamped(q.limit, 10)
            data == resp.body.data
        IN  /\ Len(data) <= limit
            /\ page < CeilOf(Len(rel), limit) => Len(data) = limit
            /\ data = Window(rel, (page - 1) * limit, limit)

\* C2, for the requests whose page and limit are absent or numbers.
C2_NumericPaging ==
    ListAnswered /\ IsNumeric(req.input.page) /\ IsNumeric(req.input.limit) => C2_PageWindow

\* C3: a list request is not rejected for its page or limit; the page and the
\* limit reported are the numbers asked for, 1 for a non-numeric, zero or
\* negative input, and the defaults 1 and 10 for absent inputs.
C3_ClampedToOne ==
    req.route \in ListRoutes /\ resp # NoResponse =>
        /\ resp.status \in {200, 500}
        /\ resp.status = 500 => req.route = "GET /users" /\ UsersQueryRejected(req.input)
        /\ resp.status = 200 =>
               /\ resp.body.pagination.page = Num(Clamped(req.input.page, 1))
               /\ resp.body.pagination.limit = Num(Clamped(req.input.limit, 10))

\* C3, for the inputs that are absent or numbers.
C3_NumericInputs ==
    /\ req.route \in ListRoutes
    /\ IsNumeric(req.input.page)
    /\ IsNumeric(req.input.limit)
    => C3_ClampedToOne

UserDetailAnswered(role) ==
    /\ req.route = "GET /users/:id"
    /\ resp.status = 200
    /\ resp.body.data.user.role = role

\* C4 as stated: the detail of a teacher has no enrollments key and the detail
\* of a student has no top-level classes key.
C4_StudentWithoutClasses ==
    /\ UserDetailAnswered(Teacher) => "enrollments" \notin DOMAIN resp.body.data
    /\ UserDetailAnswered(Student) => "classes" \notin DOMAIN resp.body.data

\* C4 as amended: the detail of a teacher has a classes key and no enrollments
\* key; the detail of a student has an enrollments key, a top-level classes
\* key (the distinct classes of the enrollments) and no departments key.
C4_RoleShapes ==
    /\ UserDetailAnswered(Teacher) =>
           /\ "enrollments" \notin DOMAIN resp.body.data
           /\ {"classes", "departments"} \subseteq DOMAIN resp.body.data
    /\ UserDetailAnswered(Student) =>
           /\ {"enrollments", "classes"} \subseteq DOMAIN resp.body.data
           /\ "departments" \notin DOMAIN resp.body.data

\* C4: a student enrolled in a class has been answered.
C4_StudentListsClasses ==
    /\ UserDetailAnswered(Student)
    /\ Len(resp.body.data.enrollments) = 1
    /\ Len(resp.body.data.classes) = 1

NumericIdRoutes == {"GET /subjects/:id", "GET /departments/:id"}

\* A numeric identifier: a non-empty run of decimal digits.
IsNumericId(x) == x.s # <<>> /\ \A i \in 1..Len(x.s) : IsDigit(x.s[i])

TableOf(route) == IF route = "GET /subjects/:id" THEN "subjects" ELSE "departments"

\* C5: a subject or department detail request whose id is no numeric
\* identifier is answered 400 without a database query, and one whose id is
\* numeric and matches no row is answered 404.
C5_InvalidIdIs400 ==
    req.route \in NumericIdRoutes /\ resp # NoResponse =>
        /\ ~IsNumericId(req.input) => resp.status = 400 /\ ~req.queried
        /\ /\ IsNumericId(req.input)
           /\ \A i \in 1..Len(db[TableOf(req.route)]) :
                  db[TableOf(req.route)][i].id # DecimalValue(req.input.s, 0)
           => resp.status = 404

\* C5, for the ids that are not blank.
C5_NonBlankIds ==
    req.route \in NumericIdRoutes /\ TrimLeft(req.input.s) # <<>> => C5_InvalidIdIs400

DepartmentDetailAnswered == req.route = "GET /departments/:id" /\ resp.status = 200

Ids(rows) == {rows[i].id : i \in 1..Len(rows)}

SubjectIdsOf(d, departmentId) ==
    {d.subjects[i].id : i \in {j \in 1..Len(d.subjects) : d.subjects[j].departmentId = departmentId}}

ClassIdsOf(d, departmentId) ==
    {d.classes[i].id :
        i \in {j \in 1..Len(d.classes) : d.classes[j].subjectId \in SubjectIdsOf(d, departmentId)}}

\* C6: the detail of a department lists each of its subjects once, however
\* many classes a subject has, and each class under those subjects once;
\* totals.subjects and totals.classes are the lengths of the two lists.
C6_EachSubjectAndClassOnce ==
    DepartmentDetailAnswered =>
        LET data == resp.body.data
            n == data.department.id
        IN  /\ Ids(data.subjects) = SubjectIdsOf(db, n)
            /\ Len(data.subjects) = Cardinality(SubjectIdsOf(db, n))
            /\ Ids(data.classes) = ClassIdsOf(db, n)
            /\ Len(data.classes) = Cardinality(ClassIdsOf(db, n))
            /\ data.totals.subjects = Len(data.subjects)
            /\ data.totals.classes = Len(data.classes)

\* C6: a department whose one subject has two classes has been answered.
C6_SubjectWithTwoClasses ==
    /\ DepartmentDetailAnswered
    /\ Len(resp.body.data.subjects) = 1
    /\ Len(resp.body.data.classes) = 2
    /\ resp.body.data.subjects[1].totalClasses = 2

Answered == req.route # "none" /\ resp # NoResponse

CreateRoutes == {"POST /departments", "POST /subjects", "POST /classes", "POST /enrollments"}

CreateTable(route) ==
    CASE route = "POST /departments" -> "departments"
      [] route = "POST /subjects" -> "subjects"
      [] route = "POST /classes" -> "classes"
      [] route = "POST /enrollments" -> "enrollments"

\* The fixed message of a handler's catch block.
StaticMessage(route) ==
    CASE route = "GET /users" -> "Failed to fetch users"
      [] route = "GET /departments" -> "Failed to fetch departments"
      [] route = "GET /subjects" -> "Failed to fetch subjects"
      [] route = "GET /classes" -> "Failed to fetch classes"
      [] route = "POST /departments" -> "Failed to create department"
      [] route = "POST /subjects" -> "Failed to create subject"
      [] route = "POST /classes" -> "Failed to create class"
      [] route = "POST /enrollments" -> "Failed to create enrollment"
      [] route = "GET /subjects/:id" -> "Failed to fetch subject details"
      [] route = "GET /users/:id" -> "Failed to fetch user details"
      [] route = "GET /departments/:id" -> "Failed to fetch department details"

\* A database call the request made has failed: an injected rejection of a
\* call the handler reaches, an insert returning no row, a role that is no
\* enum label, or a missing referenced row.
DatabaseFailed ==
    CASE req.route \in ListRoutes ->
           \/ req.fault \in {1, 2}
           \/ req.route = "GET /users" /\ req.input.role \notin {Undefined, StrVal(<<>>)}
                                       /\ req.input.role.s \notin roleEnum
      [] req.route \in CreateRoutes ->
           \/ req.fault # "ok"
           \/ req.route = "POST /subjects"
                /\ req.input.departmentId \notin Ids(db.departments)
           \/ req.route = "POST /classes"
                /\ req.input.subjectId \notin Ids(db.subjects)
           \/ req.route = "POST /enrollments"
                /\ req.input.classId \notin Ids(db.classes)
      [] req.route = "GET /subjects/:id" ->
           /\ ToNumber(req.input).k = "num"
           /\ \/ req.fault = 1
              \/ req.fault = 2 /\ ToNumber(req.input).v \in Ids(db.subjects)
      [] req.route = "GET /users/:id" ->
           \/ req.fault = 1
           \/ /\ req.fault = 2
              /\ \E i \in 1..Len(db.user) :
                     db.user[i].id = req.input /\ db.user[i].role \in {Teacher, Student}
      [] req.route = "GET /departments/:id" ->
           ToNumber(req.input).k = "num" /\ req.fault \in {1, 2}
      [] OTHER -> FALSE

\* The keys of a complete success body.
CompleteBody ==
    CASE req.route \in ListRoutes -> DOMAIN resp.body = {"data", "pagination"}
      [] req.route \in CreateRoutes ->
           DOMAIN resp.body = {"data"} /\ DOMAIN resp.body.data = {"id"}
      [] req.route = "GET /subjects/:id" ->
           DOMAIN resp.body = {"data"}
           /\ DOMAIN resp.body.data = {"subject", "classes", "totals"}
      [] req.route = "GET /users/:id" ->
           DOMAIN resp.body = {"data"} /\ "user" \in DOMAIN resp.body.data
      [] req.route = "GET /departments/:id" ->
           DOMAIN resp.body = {"data"}
           /\ DOMAIN resp.body.data =
                  {"department", "subjects", "classes", "enrolledStudents", "totals"}

\* C7: a request in which a database call failed is answered 500 with the
\* handler's static message and nothing else; every response is either a
\* complete success body or an error body.
C7_FailureIs500 ==
    Answered =>
        /\ DatabaseFailed =>
               resp.status = 500 /\ resp.body = [error |-> StaticMessage(req.route)]
        /\ resp.status \in {200, 201} => CompleteBody
        /\ resp.status \notin {200, 201} =>
               DOMAIN resp.body = {"error"} /\ resp.status \in {400, 404, 500}

\* C7: a create whose insert returned no row has been answered 500.
C7_InsertReturnedNoRow ==
    /\ req.route = "POST /departments"
    /\ req.fault = "norow"
    /\ resp.status = 500

OtherFiltersAbsent ==
    CASE req.route = "GET /users" -> req.input.role = Undefined
      [] req.route = "GET /departments" -> TRUE
      [] req.route = "GET /subjects" -> req.input.department = Undefined
      [] req.route = "GET /classes" ->
           req.input.subject = Undefined /\ req.input.teacher = Undefined

ListTable(route) ==
    CASE route = "GET /users" -> "user"
      [] route = "GET /departments" -> "departments"
      [] route = "GET /subjects" -> "subjects"
      [] route = "GET /classes" -> "classes"

\* C8: a list request without filter parameters and one whose search is the
\* empty string report the same total, the number of rows of the table.
C8_EmptySearchIsNoFilter ==
    /\ ListAnswered
    /\ OtherFiltersAbsent
    /\ req.input.search \in {Undefined, StrVal(<<>>)}
    => resp.body.pagination.total = Num(Len(db[ListTable(req.route)]))

\* C8: a request with an empty search has been answered over a table with rows.
C8_EmptySearchAnswered ==
    /\ ListAnswered
    /\ req.route = "GET /departments"
    /\ req.input.search = StrVal(<<>>)
    /\ resp.body.pagination.total = Num(2)

\* A filter input is provided if it is present and not empty.
Provided(x) == x # Undefined /\ x.s # <<>>

\* text occurs in col, letters compared without case.
ContainsFolded(col, text) ==
    \E i \in 0..(Len(col) - Len(text)) :
        \A j \in 1..Len(text) : Lower(col[i + j]) = Lower(text[j])

\* The positions of col at which a match of pat can end, having started at
\* one of the positions from: _ takes any one character, % any run.
RECURSIVE MatchEnds(_, _, _)
MatchEnds(col, pat, from) ==
    IF pat = <<>> THEN from
    ELSE MatchEnds(col, Tail(pat),
            IF Head(pat) = "%"
            THEN {j \in 0..Len(col) : \E i \in from : i <= j}
            ELSE {i + 1 : i \in {k \in from :
                      /\ k < Len(col)
                      /\ (Head(pat) = "_" \/ Lower(col[k + 1]) = Lower(Head(pat)))}})

\* text occurs in col without case, _ and % of text being wildcards.
ContainsPattern(col, text) == MatchEnds(col, text, 0..Len(col)) # {}

RowsOf(table) == {db[table][i] : i \in 1..Len(db[table])}

\* The rows a list request asks for: every provided input is satisfied, the
\* search by one of its two columns, text by Match, the role by equality.
Selected(route, q, Match(_, _)) ==
    CASE route = "GET /users" ->
           {u \in RowsOf("user") :
               /\ Provided(q.search) =>
                      Match(u.name, q.search.s) \/ Match(u.email, q.search.s)
               /\ Provided(q.role) => u.role = q.role.s}
      [] route = "GET /departments" ->
           {r \in RowsOf("departments") :
               Provided(q.search) => Match(r.name, q.search.s) \/ Match(r.code, q.search.s)}
      [] route = "GET /subjects" ->
           {r \in RowsOf("subjects") :
               /\ Provided(q.search) =>
                      Match(r.name, q.search.s) \/ Match(r.code, q.search.s)
               /\ Provided(q.department) =>
                      \E dp \in RowsOf("departments") :
                          dp.id = r.departmentId /\ Match(dp.name, q.department.s)}
      [] route = "GET /classes" ->
           {r \in RowsOf("classes") :
               /\ Provided(q.search) =>
                      Match(r.name, q.search.s) \/ Match(r.inviteCode, q.search.s)
               /\ Provided(q.subject) =>
                      \E s \in RowsOf("subjects") :
                          s.id = r.subjectId /\ Match(s.name, q.subject.s)
               /\ Provided(q.teacher) =>
                      \E u \in RowsOf("user") :
                          u.id = r.teacherId /\ Match(u.name, q.teacher.s)}

SelectsExactly(Match(_, _)) ==
    ListAnswered =>
        LET wanted == {r.id : r \in Selected(req.route, req.input, Match)}
        IN  /\ resp.body.pagination.total = Num(Cardinality(wanted))
            /\ req.input.page = Undefined /\ req.input.limit = Undefined
               => Ids(resp.body.data) = wanted

\* C9 as stated: a list response holds exactly the rows that satisfy every
\* provided input, text inputs matching as case-insensitive substrings.
C9_SubstringMatch == SelectsExactly(ContainsFolded)

\* C9 as amended: text inputs match as case-insensitive substrings in which
\* a _ of the input stands for any one character and a % for any run.
C9_PatternMatch == SelectsExactly(ContainsPattern)

\* C9: a users request with both a search and a role has been answered with
\* the one row that satisfies both.
C9_SearchAndRoleAnswered ==
    /\ ListAnswered
    /\ req.route = "GET /users"
    /\ req.input.search = StrVal(<<"a">>)
    /\ req.input.role = StrVal(Teacher)
    /\ req.input.page = Undefined /\ req.input.limit = Undefined
    /\ Ids(resp.body.data) = {"t1"}

PostedDepartment(n) == {i \in 1..Len(posted.departments) : posted.departments[i].id = n}

\* C10: once POST /api/departments has answered 201 with id n, a GET
\* /api/departments/n is answered 200 with the posted code and with
\* totals.subjects the number of subjects created for n.
C10_PostedDepartmentIsServed ==
    /\ req.route = "GET /departments/:id"
    /\ resp # NoResponse
    /\ IsNumericId(req.input)
    /\ PostedDepartment(DecimalValue(req.input.s, 0)) # {}
    => LET n == DecimalValue(req.input.s, 0)
       IN  /\ resp.status = 200
           /\ \A i \in PostedDepartment(n) :
                  resp.body.data.department.code = posted.departments[i].body.code
           /\ resp.body.data.totals.subjects =
                  Cardinality({j \in 1..Len(posted.subjects) :
                                  posted.subjects[j].body.departmentId = n})

\* C10: a posted department with one subject has been fetched.
C10_FetchedAfterPost ==
    /\ DepartmentDetailAnswered
    /\ PostedDepartment(resp.body.data.department.id) # {}
    /\ resp.body.data.totals.subjects = 1

\* ------------------------------------------------------------------ C11
DepartmentDetailInFlight == req.route = "GET /departments/:id" /\ resp = NoResponse

\* What the three sub-queries return for the department of the request.
AllRows ==
    [k \in SubQueries |-> Fulfilled(SubQueryRows(db, k, flight.departmentId))]

\* The step that sends the response of a request whose sub-queries are in
\* flight: 200 only with all three fulfilled, and then with their rows; 500
\* if and only if one has rejected.
C11_ResponseStep ==
    DepartmentDetailInFlight /\ resp' # NoResponse =>
        /\ resp'.status \in {200, 500}
        /\ resp'.status = 200 =>
               /\ PromiseAllFulfilled(flight.results)
               /\ flight.results = AllRows
               /\ resp'.body = DepartmentDetailBody(flight.department, AllRows)
        /\ resp'.status = 500 <=> PromiseAllRejected(flight.results)

\* A response that was sent is not followed by another one: it stays until
\* the request is over.
C11_OneResponseStep ==
    req.route = "GET /departments/:id" /\ resp # NoResponse =>
        resp' = resp \/ req'.route = "none"

PendingOf(f) == IF f.pc = "fanout" THEN {k \in SubQueries : f.results[k] = Pending} ELSE {}

\* While the response is outstanding every step either sends it or settles
\* one more sub-query, so that at most three steps precede the response.
C11_ProgressStep ==
    DepartmentDetailInFlight =>
        \/ resp' # NoResponse
        \/ \E k \in PendingOf(flight) : PendingOf(flight') = PendingOf(flight) \ {k}

\* A 200 has seen all three sub-queries settle, each once and none rejected;
\* a request with a rejected sub-query is answered 500; and while the response
\* is outstanding the handler is not stuck: a sub-query can still settle or
\* the awaited Promise.all can resume it.
C11_Answered ==
    /\ req.route = "GET /departments/:id" /\ resp # NoResponse =>
           /\ resp.status = 200 =>
                  /\ Len(req.settled) = 3
                  /\ {req.settled[i] : i \in 1..3} = SubQueries
                  /\ req.fault = 0
           /\ req.fault = 2 => resp.status = 500
    /\ DepartmentDetailInFlight =>
           /\ PendingOf(flight) # {} \/ PromiseAllRejected(flight.results)
                                     \/ PromiseAllFulfilled(flight.results)
           /\ ENABLED (DepartmentDetailResponds
                        \/ \E k \in SubQueries, ok \in BOOLEAN : SubQuerySettles(k, ok))

\* C11: the three sub-queries of the department detail handler settle in any
\* order; the 200 response is sent only once all three are fulfilled; if one
\* rejects the response is 500 and never 200; the handler sends one response
\* and no second one, and is never stuck before it has sent it.
C11_FanIn ==
    /\ [][C11_ResponseStep /\ C11_OneResponseStep /\ C11_ProgressStep]_vars
    /\ []C11_Answered

\* C11: a 200 whose sub-queries settled in the reverse of their order in the
\* Promise.all array.
C11_SettledInReverse ==
    /\ DepartmentDetailAnswered
    /\ req.settled = <<"enrolledStudents", "classes", "subjects">>
    /\ resp.body.data.totals.subjects > 0

\* ------------------------------------------------------------------ C12
Flattened == req.route = "flatten" /\ resp.status = 200

ChildRelations == {"subject", "department"}

ListOf(n) == IF n = "subject" THEN "subjects" ELSE "departments"

\* The rows that carry the key k of the child relation n.
Carrying(rows, n, k) == {i \in 1..Len(rows) : rows[i][n] # Null /\ rows[i][n].id = k}

Min(S) == CHOOSE x \in S : \A y \in S : x <= y
Max(S) == CHOOSE x \in S : \A y \in S : x >= y

\* The list out holds one record per key of keys, in the order in which the
\* keys first appear in rows, and the record of a key is the one of the row
\* Pick chooses among those carrying it; count is the number of keys.
Deduplicated(rows, n, keys, out, count, Pick(_)) ==
    /\ Ids(out) = keys
    /\ Len(out) = Cardinality(keys)
    /\ count = Cardinality(keys)
    /\ \A j \in 1..Len(out) : out[j] = rows[Pick(Carrying(rows, n, out[j].id))][n]
    /\ \A j, k \in 1..Len(out) :
           j < k => Min(Carrying(rows, n, out[j].id)) < Min(Carrying(rows, n, out[k].id))

\* C12 as stated: each child relation is reduced, on its own, to the distinct
\* keys of the rows whose child is not null, the record kept for a key being
\* the one of the first row that carries it, and the count is the number of
\* distinct keys.
C12_FirstSeenWins ==
    Flattened =>
        \A n \in ChildRelations :
            LET rows == req.input
            IN  Deduplicated(rows, n,
                             {rows[i][n].id : i \in {j \in 1..Len(rows) : rows[j][n] # Null}},
                             resp.body.data[ListOf(n)], resp.body.data.totals[ListOf(n)], Min)

\* C12 as amended: each child relation is reduced, on its own, to the distinct
\* keys of the rows whose child is not null and whose key is not 0, in the
\* order of first appearance, the record kept for a key being the one of the
\* last row that carries it, and the count is the number of those keys.
C12_LastSeenWins ==
    Flattened =>
        \A n \in ChildRelations :
            LET rows == req.input
            IN  Deduplicated(rows, n,
                             {rows[i][n].id : i \in {j \in 1..Len(rows) : HasTruthyId(rows[j][n])}},
                             resp.body.data[ListOf(n)], resp.body.data.totals[ListOf(n)], Max)

\* Rows as one join statement returns them: keys from 1 up, and the same key
\* with the same record in every row.
JoinResult(rows) ==
    \A n \in ChildRelations : \A i, j \in 1..Len(rows) :
        rows[i][n] # Null =>
            /\ rows[i][n].id # 0
            /\ rows[j][n] # Null /\ rows[j][n].id = rows[i][n].id => rows[j][n] = rows[i][n]

\* C12, for the rows of one join statement.
C12_OnJoinResults == Flattened /\ JoinResult(req.input) => C12_FirstSeenWins

\* C12: three rows have been flattened of which the first and the last carry
\* the same subject key with different records and the second no subject,
\* while their departments are two times the same and once none.
C12_SameKeyTwoRecords ==
    /\ Flattened
    /\ Len(req.input) = 3
    /\ req.input[1].subject # Null /\ req.input[3].subject # Null
    /\ req.input[1].subject.id = req.input[3].subject.id
    /\ req.input[1].subject # req.input[3].subject
    /\ req.input[2].subject = Null
    /\ resp.body.data.totals.subjects = 1
    /\ resp.body.data.totals.departments = 1
    /\ req.input[1].department # Null /\ req.input[2].department = Null

\* ------------------------------------------------------------------ C13
RoleQueries == {"classes", "enrollments"}

RoleOfQuery(query) == IF query = "classes" THEN Teacher ELSE Student

\* The users of the database with the id of the request.
Matching == {i \in 1..Len(db.user) : db.user[i].id = req.input}

\* C13: a request for a user that does not exist is answered 404 and issues
\* the lookup only; a role query is issued second, after a lookup that has
\* returned a user of that role; a user that is neither teacher nor student
\* is answered with the bare user record and no role query.
C13_LookupBeforeRoleBranch ==
    req.route = "GET /users/:id" /\ resp # NoResponse =>
        /\ req.issued # <<>> /\ req.issued[1] = "user"
        /\ Matching = {} => req.issued = <<"user">>
        /\ Matching = {} /\ req.fault # 1 => resp = ErrorResponse(404, "User not found")
        /\ resp.status = 404 => Matching = {}
        /\ \A i \in 1..Len(req.issued) :
               req.issued[i] \in RoleQueries =>
                   /\ i = 2 /\ Len(req.issued) = 2
                   /\ req.fault # 1
                   /\ \E u \in Matching : db.user[u].role = RoleOfQuery(req.issued[i])
        /\ \A u \in Matching :
               db.user[u].role \notin {Teacher, Student} =>
                   /\ req.issued = <<"user">>
                   /\ req.fault # 1 =>
                          resp = [status |-> 200, body |-> [data |-> [user |-> db.user[u]]]]

\* C13: an id that no user has has been answered 404 after the lookup alone.
C13_UnknownUserIs404 ==
    /\ req.route = "GET /users/:id"
    /\ Matching = {}
    /\ resp.status = 404
    /\ req.issued = <<"user">>

\* C13: an admin has been answered with the bare record.
C13_AdminIsBare ==
    /\ req.route = "GET /users/:id"
    /\ resp.status = 200
    /\ resp.body.data.user.role = Admin
    /\ DOMAIN resp.body.data = {"user"}

====
